---- MODULE Spec2Model ----
(***************************************************************************)
(* A model of fire.py (FireProx API Gateway manager).                      *)
(*                                                                         *)
(* Strings are modelled as sequences of lexical tokens: the string a       *)
(* sequence denotes is the concatenation of its tokens.  A URL such as     *)
(* http://a.com:8080/x is <<"http", "://", "a.com", ":", "8080", "/x">>.    *)
(* The tokens of the input universe are chosen so that no token boundary   *)
(* is ambiguous (no host token holds ':' or '/', no word starts with 's-') *)
(* and the string operations of the code (in, split, startswith, endswith, *)
(* replace, slicing) are exact on them.  The input URLs have the shape     *)
(* [scheme://]host[:digits][/path][?query].                                *)
(*                                                                         *)
(* Durations are in tenths of a second (sleep(3.5) is 35).                 *)
(*                                                                         *)
(* Specifications:                                                         *)
(*   SpecCreate  main's create command: prune_urls, batching, create_api   *)
(*   SpecManage  main's delete, delete-all and update commands             *)
(*   SpecCreds   FireProx.__init__ / load_creds                            *)
(***************************************************************************)
EXTENDS Integers, Sequences, FiniteSets, TLC

VARIABLES
    pc,             \* position of the process in main / the current function
    exit_code,      \* the status the process ended with (-1 while it runs)
    outcome,        \* how the command ended: "", "returned", "sys.exit", "self.error", "exception"
    trace,          \* remote calls issued and sleeps taken, in order: <<op, arg>>
    apis,           \* the remote service's definitions: <<[id, resources]>>
    region,         \* fp.region
    input,          \* the URL list read from --url (main, lines 658-662)
    unique,         \* args.unique
    urls,           \* the local `urls` of prune_urls, then of main
    url_pairs,      \* prune_urls' url_pairs (result of fp.get_url_pairs())
    num_batches,    \* main's num_batches
    batch_i,        \* main's loop index
    command,        \* args.command
    api_id,         \* fp.api_id (--api_id)
    url,            \* args.url of the update command
    items,          \* delete_all's items
    idx,            \* delete_all's loop index i
    result,         \* main's result (the handler's return value)
    creds           \* the state of FireProx.__init__ / load_creds (a record)

vars == <<pc, exit_code, outcome, trace, apis, region, input, unique, urls,
          url_pairs, num_batches, batch_i, command, api_id, url, items, idx,
          result, creds>>

(***************************************************************************)
(* Bounds of the model.                                                    *)
(***************************************************************************)
MaxUrls == 2          \* longest input list drawn from UrlUniverse
MaxApis == 2          \* most definitions the remote service holds at the start
MaxNumUrls == 120     \* longest list of distinct hosts (more than two batches)
MaxPermute == 3       \* sets up to this size are listed in every order
MaxDefinitions == 3   \* most definitions enumerated by delete, delete-all and update

(***************************************************************************)
(* Sequence (string) helpers.                                              *)
(***************************************************************************)
Range(s) == {s[i] : i \in 1..Len(s)}

Contains(s, t) == \E i \in 1..Len(s) : s[i] = t

StartsWith(s, p) == Len(s) >= Len(p) /\ SubSeq(s, 1, Len(p)) = p

EndsWith(s, p) == Len(s) >= Len(p) /\ SubSeq(s, Len(s) - Len(p) + 1, Len(s)) = p

\* s[:-n]
DropLast(s, n) == SubSeq(s, 1, Len(s) - n)

\* s.replace(t, '') for a token t
RemoveToken(s, t) == SelectSeq(s, LAMBDA x : x # t)

RECURSIVE Flatten(_)
Flatten(ss) == IF ss = <<>> THEN <<>> ELSE Head(ss) \o Flatten(Tail(ss))

\* every sequence listing the finite set S once each
RECURSIVE Orderings(_)
Orderings(S) ==
    IF S = {} THEN {<<>>}
    ELSE UNION {{<<x>> \o p : p \in Orderings(S \ {x})} : x \in S}

\* the elements of s in order of first occurrence
Dedup(s) ==
    LET first == SelectSeq([i \in 1..Len(s) |-> i],
                           LAMBDA i : \A j \in 1..(i - 1) : s[j] # s[i])
    IN [k \in 1..Len(first) |-> s[first[k]]]

Reverse(s) == [i \in 1..Len(s) |-> s[Len(s) + 1 - i]]

(***************************************************************************)
(* URLs and urllib.parse.urlparse.                                         *)
(***************************************************************************)
SchemeTokens == {"http", "https", "HTTP"}

\* tokens that end the netloc: they begin with '/', '?' or '#'
PathTokens == {"/", "/x", "?q"}

PortTokens == {"80", "81", "443", "1024", "1025", "8080"}

\* int(port)
int(t) ==
    CASE t = "80" -> 80
      [] t = "81" -> 81
      [] t = "443" -> 443
      [] t = "1024" -> 1024
      [] t = "1025" -> 1025
      [] t = "8080" -> 8080

\* urlparse lowercases the scheme
Lower(t) == IF t = "HTTP" THEN "http" ELSE t

\* the URLs the input lists are drawn from
UrlUniverse ==
    { <<"http", "://", "a.com">>,
      <<"http", "://", "a.com", "/x">>,
      <<"HTTP", "://", "a.com", "/">>,
      <<"http", "://", "b.com", "/x", "?q">>,
      <<"http", "://", "a.com", ":", "80">>,
      <<"https", "://", "a.com", ":", "443", "/x">>,
      <<"http", "://", "a.com", ":", "81", "/">>,
      <<"http", "://", "a.com", ":", "1024">>,
      <<"http", "://", "b.com", ":", "1025">>,
      <<"http", "://", "a.com", ":", "8080", "/">>,
      <<"a.com">> }

\* a list of n URLs with distinct hosts, for the batch splitting
BulkUrl(i) == <<"https", "://", "h" \o ToString(i)>>

BulkList(n) == [i \in 1..n |-> BulkUrl(i)]

\* the index of the first path token of s, Len(s) + 1 when it has none
FirstPathIndex(s) ==
    IF \E i \in 1..Len(s) : s[i] \in PathTokens
    THEN CHOOSE i \in 1..Len(s) :
            /\ s[i] \in PathTokens
            /\ \A j \in 1..(i - 1) : s[j] \notin PathTokens
    ELSE Len(s) + 1

\* urlparse(u): the scheme is what precedes "://" at the start (lowercased),
\* the netloc runs from there to the first '/', '?' or '#'.  Without a
\* leading scheme and "//" both are empty.
urlparse(u) ==
    LET has_scheme == Len(u) >= 2 /\ u[1] \in SchemeTokens /\ u[2] = "://"
        rest == IF has_scheme THEN SubSeq(u, 3, Len(u)) ELSE <<>>
    IN [scheme |-> IF has_scheme THEN Lower(u[1]) ELSE "",
        netloc |-> SubSeq(rest, 1, FirstPathIndex(rest) - 1)]

\* u.scheme + "://" + u.netloc
SchemeAndNetloc(u) ==
    LET p == urlparse(u)
    IN (IF p.scheme = "" THEN <<>> ELSE <<p.scheme>>) \o <<"://">> \o p.netloc

\* every order a Python set of these strings may be listed in; for sets
\* larger than MaxPermute only two of the orders are drawn
SetOrders(s) ==
    LET S == Range(s)
    IN IF Cardinality(S) <= MaxPermute
       THEN Orderings(S)
       ELSE {Dedup(s), Reverse(Dedup(s))}

\* the list kept as a list: hosts are not merged
get_unique_domains_list(us) == {[i \in 1..Len(us) |-> SchemeAndNetloc(us[i])]}

get_unique_domains(us) == SetOrders([i \in 1..Len(us) |-> SchemeAndNetloc(us[i])])

(***************************************************************************)
(* prune_urls: the two validations.                                        *)
(***************************************************************************)
\* '://' not in url
NoScheme(u) == ~Contains(u, "://")

no_scheme_count(us) == Cardinality({i \in 1..Len(us) : NoScheme(us[i])})

\* the port test with p < 1024 for p <= 1024
IsBadPort_lt(u) ==
    LET netloc == urlparse(u).netloc
    IN /\ Contains(netloc, ":")
       /\ LET p == int(netloc[Len(netloc)])
          IN p < 1024 /\ p \notin {80, 443}

\* lines 576-581: the port after the ':' of the netloc
IsBadPort(u) ==
    LET netloc == urlparse(u).netloc
    IN /\ Contains(netloc, ":")
       /\ LET port == netloc[Len(netloc)]
              p == int(port)
          IN p <= 1024 /\ p \notin {80, 443}

bad_port_urls(us) == SelectSeq(us, IsBadPort)

(***************************************************************************)
(* The remote service: definitions, their resources and integrations.      *)
(***************************************************************************)
\* the resources a definition imported from get_template's document holds:
\* the root and, per URL, the four paths of the template with their uris
\* (a trailing slash of a path key is not part of the resource's path)
RECURSIVE TemplateResources(_, _)
TemplateResources(targets, ws) ==
    IF targets = <<>> THEN <<[id |-> "r0", path |-> <<"/">>, uri |-> <<>>]>>
    ELSE LET k == Len(targets)
             t == targets[k]
             w == ws[k]
             rid(j) == "r" \o ToString(4 * (k - 1) + j)
         IN TemplateResources(DropLast(targets, 1), DropLast(ws, 1)) \o
            << [id |-> rid(1), path |-> <<"/s-", w>>, uri |-> t \o <<"/">>],
               [id |-> rid(2), path |-> <<"/s-", w, "/{proxy+}">>,
                uri |-> t \o <<"/", "{proxy}", "/">>],
               [id |-> rid(3), path |-> <<"/", w>>, uri |-> t],
               [id |-> rid(4), path |-> <<"/", w, "/{proxy+}">>,
                uri |-> t \o <<"/", "{proxy}">>] >>

\* what a definition at the remote service may hold at the start
ApiBodies ==
    { TemplateResources(<< <<"http", "://", "a.com">> >>, <<"w1">>),
      TemplateResources(<< <<"https", "://", "b.com">>,
                           <<"http", "://", "a.com", ":", "8080">> >>,
                        <<"w1", "w2">>),
      \* a definition this tool did not create: no wildcard path but a decoy
      << [id |-> "r0", path |-> <<"/">>, uri |-> <<>>],
         [id |-> "r1", path |-> <<"/s-", "w1", "/{proxy+}">>,
          uri |-> <<"http", "://", "b.com", "/", "{proxy}", "/">>] >> }

ApiId(i) == "api" \o ToString(i)

RemoteInventories ==
    UNION { { [i \in 1..n |-> [id |-> ApiId(i), resources |-> b[i]]] :
              b \in [1..n -> ApiBodies] } : n \in 0..MaxApis }

\* get_api_ids: the ids of client.get_rest_apis()['items'], in order
\* (created_dt and name are only printed)
get_api_ids(as) == [i \in 1..Len(as) |-> as[i].id]

\* get_resources: (id, path without the suffix) of the wildcard resources
\* that are not decoys
get_resources(api) ==
    LET suffix == <<"/{proxy+}">>
        keep(item) == EndsWith(item.path, suffix)
                      /\ ~StartsWith(item.path, <<"/s-">>)
        kept == SelectSeq(api.resources, keep)
    IN [i \in 1..Len(kept) |->
            <<kept[i].id, DropLast(kept[i].path, Len(suffix))>>]

\* client.get_integration(...)['uri'] of a resource
IntegrationUri(api, resource_id) ==
    (CHOOSE item \in Range(api.resources) : item.id = resource_id).uri

\* resource_path[1:] (the first token of a kept path is the one character "/")
Subdir(resource_path) ==
    IF resource_path = <<>> THEN <<>> ELSE Tail(resource_path)

\* get_integrations, past its check of ress: (target url, subdir) per resource
get_integrations(api) ==
    LET ress == get_resources(api)
    IN [i \in 1..Len(ress) |->
            <<RemoveToken(IntegrationUri(api, ress[i][1]), "{proxy}"),
              Subdir(ress[i][2])>>]

\* the remote calls of one get_integrations
IntegrationCalls(api) ==
    LET ress == get_resources(api)
    IN <<<<"get_resources", api.id>>>> \o
       [i \in 1..Len(ress) |-> <<"get_integration", <<api.id, ress[i][1]>>>>]

\* url_base + subdir + '/'
ProxyUrl(id, reg, subdir) ==
    <<"https", "://", id, ".execute-api.", reg, ".amazonaws.com", "/fireprox/">>
        \o subdir \o <<"/">>

\* the loop passing over a definition without resources
RECURSIVE EnumeratePairs_skip(_, _)
EnumeratePairs_skip(as, reg) ==
    IF as = <<>> THEN [calls |-> <<>>, pairs |-> <<>>, ok |-> TRUE]
    ELSE LET api == Head(as)
             ints == get_integrations(api)
             rest == EnumeratePairs_skip(Tail(as), reg)
         IN [calls |-> IntegrationCalls(api) \o rest.calls,
             pairs |-> [i \in 1..Len(ints) |->
                           <<ProxyUrl(api.id, reg, ints[i][2]), ints[i][1]>>]
                       \o rest.pairs,
             ok |-> rest.ok]

\* get_url_pairs' loop over the definitions `as`: the calls issued, the pairs
\* gathered, and whether it ran to its end (get_integrations ends the
\* process at a definition without resources)
RECURSIVE EnumeratePairs(_, _)
EnumeratePairs(as, reg) ==
    IF as = <<>> THEN [calls |-> <<>>, pairs |-> <<>>, ok |-> TRUE]
    ELSE LET api == Head(as)
             ress == get_resources(api)
             ints == get_integrations(api)
             rest == EnumeratePairs(Tail(as), reg)
         IN IF Len(ress) = 0
            THEN [calls |-> <<<<"get_resources", api.id>>>>,
                  pairs |-> <<>>, ok |-> FALSE]
            ELSE [calls |-> IntegrationCalls(api) \o rest.calls,
                  pairs |-> [i \in 1..Len(ints) |->
                                <<ProxyUrl(api.id, reg, ints[i][2]), ints[i][1]>>]
                            \o rest.pairs,
                  ok |-> rest.ok]

(***************************************************************************)
(* Ending the process.                                                     *)
(***************************************************************************)
\* sys.exit(code), self.error(message) (sys.exit of a string: status 1), an
\* uncaught exception (status 1), and main returning (status 0)
Terminate(how, code) ==
    /\ pc' = "exited"
    /\ outcome' = how
    /\ exit_code' = code

SysExit(code) == Terminate("sys.exit", code)

Error == Terminate("self.error", 1)

Raise == Terminate("exception", 1)

Return == Terminate("returned", 0)

(***************************************************************************)
(* main, command create: prune_urls.                                       *)
(***************************************************************************)
create_frame == <<apis, region, input, unique, command, api_id, url, items,
                  idx, result, creds>>

\* prune_urls, lines 559-592: both validations
PruneValidate ==
    /\ pc = "prune_urls"
    /\ IF no_scheme_count(urls) > 0 THEN SysExit(1)
       ELSE IF bad_port_urls(urls) # <<>> THEN SysExit(1)
       ELSE /\ pc' = "unique_domains"
            /\ UNCHANGED <<outcome, exit_code>>
    /\ UNCHANGED <<trace, urls, url_pairs, num_batches, batch_i>>
    /\ UNCHANGED create_frame

\* lines 594-600
PruneUniqueDomains ==
    /\ pc = "unique_domains"
    /\ urls' \in get_unique_domains(urls)
    /\ pc' = IF unique THEN "get_url_pairs" ELSE "check_empty"
    /\ UNCHANGED <<outcome, exit_code, trace, url_pairs, num_batches, batch_i>>
    /\ UNCHANGED create_frame

\* line 604: fp.get_url_pairs()
PruneGetUrlPairs ==
    /\ pc = "get_url_pairs"
    /\ LET e == EnumeratePairs(apis, region)
       IN /\ trace' = trace \o <<<<"get_rest_apis", "">>>> \o e.calls
          /\ IF e.ok
             THEN /\ url_pairs' = e.pairs
                  /\ pc' = "remove_existing"
                  /\ UNCHANGED <<outcome, exit_code>>
             ELSE /\ Error
                  /\ UNCHANGED url_pairs
    /\ UNCHANGED <<urls, num_batches, batch_i>>
    /\ UNCHANGED create_frame

\* lines 605-608
existing_set(pairs) == {urlparse(pairs[i][2]).netloc : i \in 1..Len(pairs)}

\* the filter comparing scheme and netloc instead of the netloc alone
new_urls_scheme(us, pairs) ==
    SelectSeq(us, LAMBDA u : SchemeAndNetloc(u) \notin
                    {SchemeAndNetloc(pairs[i][2]) : i \in 1..Len(pairs)})

\* lines 610-614
new_urls(us, pairs) ==
    SelectSeq(us, LAMBDA u : urlparse(u).netloc \notin existing_set(pairs))

\* lines 605-619
PruneRemoveExisting ==
    /\ pc = "remove_existing"
    /\ urls' = new_urls(urls, url_pairs)
    /\ pc' = "check_empty"
    /\ UNCHANGED <<outcome, exit_code, trace, url_pairs, num_batches, batch_i>>
    /\ UNCHANGED create_frame

\* the empty list returned instead of ending the process
PruneCheckEmpty_return ==
    /\ pc = "check_empty"
    /\ pc' = "batching"
    /\ UNCHANGED <<outcome, exit_code, trace, urls, url_pairs, num_batches, batch_i>>
    /\ UNCHANGED create_frame

\* lines 621-625
PruneCheckEmpty ==
    /\ pc = "check_empty"
    /\ IF Len(urls) = 0 THEN SysExit(0)
       ELSE /\ pc' = "batching"
            /\ UNCHANGED <<outcome, exit_code>>
    /\ UNCHANGED <<trace, urls, url_pairs, num_batches, batch_i>>
    /\ UNCHANGED create_frame

(***************************************************************************)
(* main, command create: batches.                                          *)
(***************************************************************************)
API_GATEWAY_LIMIT == 300 - 2

INTEGRATIONS_PER_URL == 5

max_urls == API_GATEWAY_LIMIT \div INTEGRATIONS_PER_URL

\* rounding down
ceil_floor(a, b) == a \div b

\* math.ceil(a / b)
ceil(a, b) == IF a % b = 0 THEN a \div b ELSE a \div b + 1

\* time.sleep, in tenths of a second
Sleep(t) == <<"sleep", t>>

\* lines 671-680
MainBatches ==
    /\ pc = "batching"
    /\ num_batches' = ceil(Len(urls), max_urls)
    /\ trace' = IF num_batches' > 1 THEN Append(trace, Sleep(30)) ELSE trace
    /\ batch_i' = 0
    /\ pc' = "batch_loop"
    /\ UNCHANGED <<outcome, exit_code, urls, url_pairs>>
    /\ UNCHANGED create_frame

\* urls[max_urls * batch_i : max_urls * (batch_i + 1)]
Batch(us, i) ==
    LET lo == max_urls * i + 1
        hi == max_urls * (i + 1)
    IN SubSeq(us, lo, IF hi > Len(us) THEN Len(us) ELSE hi)

\* the loop deleting the definition it imported when its deployment fails
MainCreateApi_rollback ==
    /\ pc = "batch_loop"
    /\ IF batch_i >= num_batches
       THEN Return /\ UNCHANGED trace
       ELSE LET batch == Batch(urls, batch_i)
            IN IF batch = <<>>
               THEN Error /\ UNCHANGED trace
               ELSE \/ /\ trace' = Append(trace, <<"import_rest_api", batch>>)
                       /\ Raise
                    \/ /\ trace' = trace \o <<<<"import_rest_api", batch>>,
                                              <<"create_deployment", "">>,
                                              <<"delete_rest_api", "">>>>
                       /\ Raise
                    \/ /\ trace' = trace \o <<<<"import_rest_api", batch>>,
                                              <<"create_deployment", "">>>>
                       /\ pc' = "batch_sleep"
                       /\ UNCHANGED <<outcome, exit_code>>
    /\ UNCHANGED <<urls, url_pairs, num_batches, batch_i>>
    /\ UNCHANGED create_frame

\* lines 683-686: the loop test and create_api(batch); import_rest_api or
\* create_deployment may raise
MainCreateApi ==
    /\ pc = "batch_loop"
    /\ IF batch_i >= num_batches
       THEN Return /\ UNCHANGED trace
       ELSE LET batch == Batch(urls, batch_i)
            IN IF batch = <<>>
               THEN Error /\ UNCHANGED trace
               ELSE \/ /\ trace' = Append(trace, <<"import_rest_api", batch>>)
                       /\ Raise
                    \/ /\ trace' = trace \o <<<<"import_rest_api", batch>>,
                                              <<"create_deployment", "">>>>
                       /\ Raise
                    \/ /\ trace' = trace \o <<<<"import_rest_api", batch>>,
                                              <<"create_deployment", "">>>>
                       /\ pc' = "batch_sleep"
                       /\ UNCHANGED <<outcome, exit_code>>
    /\ UNCHANGED <<urls, url_pairs, num_batches, batch_i>>
    /\ UNCHANGED create_frame

\* the pause of the loop dropped
MainBatchSleep_none ==
    /\ pc = "batch_sleep"
    /\ batch_i' = batch_i + 1
    /\ pc' = "batch_loop"
    /\ UNCHANGED <<outcome, exit_code, trace, urls, url_pairs, num_batches>>
    /\ UNCHANGED create_frame

\* line 689
MainBatchSleep ==
    /\ pc = "batch_sleep"
    /\ trace' = Append(trace, Sleep(35))
    /\ batch_i' = batch_i + 1
    /\ pc' = "batch_loop"
    /\ UNCHANGED <<outcome, exit_code, urls, url_pairs, num_batches>>
    /\ UNCHANGED create_frame

\* the URL lists of main's line 658-662: short lists over UrlUniverse, and
\* long lists of distinct hosts
RECURSIVE ListsUpTo(_, _)
ListsUpTo(S, n) ==
    IF n = 0 THEN {<<>>}
    ELSE LET shorter == ListsUpTo(S, n - 1)
         IN shorter \cup {Append(l, x) : l \in {m \in shorter : Len(m) = n - 1}, x \in S}

InputLists ==
    ListsUpTo(UrlUniverse, MaxUrls) \cup {BulkList(n) : n \in (MaxUrls + 1)..MaxNumUrls}

Idle == "-"

\* main at line 664: the arguments are parsed, fp is constructed
InitCreate ==
    /\ pc = "prune_urls"
    /\ exit_code = -1
    /\ outcome = ""
    /\ trace = <<>>
    /\ apis \in RemoteInventories
    /\ region = "us-east-1"
    /\ input \in InputLists
    /\ urls = input
    /\ unique \in BOOLEAN
    /\ url_pairs = <<>>
    /\ num_batches = 0
    /\ batch_i = 0
    /\ command = "create"
    /\ api_id = Idle
    /\ url = Idle
    /\ items = <<>>
    /\ idx = 0
    /\ result = Idle
    /\ creds = Idle

NextCreate ==
    \/ PruneValidate
    \/ PruneUniqueDomains
    \/ PruneGetUrlPairs
    \/ PruneRemoveExisting
    \/ PruneCheckEmpty
    \/ MainBatches
    \/ MainCreateApi
    \/ MainBatchSleep

SpecCreate == InitCreate /\ [][NextCreate]_vars

(***************************************************************************)
(* main, commands delete, delete-all and update.                           *)
(***************************************************************************)
None == "None"

DELETE_API_RATE_LIMIT_S == 30

manage_frame == <<region, input, unique, urls, url_pairs, num_batches, batch_i,
                  command, api_id, url, creds>>

\* the remote definitions without the one deleted
Deleted(as, id) == SelectSeq(as, LAMBDA a : a.id # id)

\* delete_api returning True without looking for the id
DeleteApi_true ==
    /\ pc = "delete_api"
    /\ items' = get_api_ids(apis)
    /\ trace' = Append(trace, <<"get_rest_apis", "">>)
    /\ result' = "True"
    /\ pc' = "main_end"
    /\ UNCHANGED <<outcome, exit_code, apis, idx>>
    /\ UNCHANGED manage_frame

\* delete_api, lines 375-386; delete_rest_api may raise
DeleteApi ==
    /\ pc = "delete_api"
    /\ IF api_id = None
       THEN Error /\ UNCHANGED <<trace, apis, items, result>>
       ELSE /\ items' = get_api_ids(apis)
            /\ IF Contains(get_api_ids(apis), api_id)
               THEN /\ trace' = trace \o <<<<"get_rest_apis", "">>,
                                           <<"delete_rest_api", api_id>>>>
                    /\ \/ Raise /\ UNCHANGED <<apis, result>>
                       \/ /\ apis' = Deleted(apis, api_id)
                          /\ result' = "True"
                          /\ pc' = "main_end"
                          /\ UNCHANGED <<outcome, exit_code>>
               ELSE /\ trace' = Append(trace, <<"get_rest_apis", "">>)
                    /\ result' = "False"
                    /\ pc' = "main_end"
                    /\ UNCHANGED <<outcome, exit_code, apis>>
    /\ UNCHANGED idx
    /\ UNCHANGED manage_frame

\* delete_all, lines 389-400
DeleteAllStart ==
    /\ pc = "delete_all"
    /\ items' = get_api_ids(apis)
    /\ trace' = Append(trace, <<"get_rest_apis", "">>)
    /\ idx' = 0
    /\ IF Len(items') = 0
       THEN result' = "False" /\ pc' = "main_end"
       ELSE pc' = "delete_all_loop" /\ UNCHANGED result
    /\ UNCHANGED <<outcome, exit_code, apis>>
    /\ UNCHANGED manage_frame

\* sleep(DELETE_API_RATE_LIMIT_S + 0.5)
DeletePause == Sleep(DELETE_API_RATE_LIMIT_S * 10 + 5)

\* the loop pausing after every deletion, the last included
DeleteAllStep_always ==
    /\ pc = "delete_all_loop"
    /\ IF idx >= Len(items)
       THEN /\ result' = "True"
            /\ pc' = "main_end"
            /\ UNCHANGED <<outcome, exit_code, trace, apis, idx>>
       ELSE /\ trace' = trace \o <<<<"delete_rest_api", items[idx + 1]>>, DeletePause>>
            /\ apis' = Deleted(apis, items[idx + 1])
            /\ idx' = idx + 1
            /\ UNCHANGED <<outcome, exit_code, pc, result>>
    /\ UNCHANGED items
    /\ UNCHANGED manage_frame

\* delete_all, lines 402-413: one turn of the loop, or its end;
\* delete_rest_api may raise
DeleteAllStep ==
    /\ pc = "delete_all_loop"
    /\ IF idx >= Len(items)
       THEN /\ result' = "True"
            /\ pc' = "main_end"
            /\ UNCHANGED <<outcome, exit_code, trace, apis, idx>>
       ELSE LET call == <<"delete_rest_api", items[idx + 1]>>
            IN \/ /\ trace' = Append(trace, call)
                  /\ Raise
                  /\ UNCHANGED <<apis, idx, result>>
               \/ /\ trace' = IF idx + 1 < Len(items)
                              THEN trace \o <<call, DeletePause>>
                              ELSE Append(trace, call)
                  /\ apis' = Deleted(apis, items[idx + 1])
                  /\ idx' = idx + 1
                  /\ UNCHANGED <<outcome, exit_code, pc, result>>
    /\ UNCHANGED items
    /\ UNCHANGED manage_frame

\* the methods class FireProx defines (lines 33-523)
FireProxMethods ==
    {"__init__", "__str__", "_try_instance_profile", "load_creds", "error",
     "_clean_url", "get_template", "create_api", "update_api", "delete_api",
     "delete_all", "list_api", "get_api_ids", "list_api_ids", "store_api",
     "create_deployment", "get_resources", "get_integrations", "get_api_meta",
     "get_url_pairs"}

\* update_api, lines 349-373.  Line 356 calls self.get_resource, which the
\* class does not define: the call raises AttributeError before any
\* resource is looked up, so lines 357-373 are never reached (what a
\* get_resource would return is not defined by the source).
UpdateApi ==
    /\ pc = "update_api"
    /\ IF api_id = None /\ url = None THEN Error
       ELSE IF url = None THEN Raise
       ELSE IF "get_resource" \notin FireProxMethods THEN Raise
       ELSE FALSE
    /\ UNCHANGED <<trace, apis, items, idx, result>>
    /\ UNCHANGED manage_frame

\* main, lines 694-695, 699-700, 705-706: the result is printed, main returns
MainEnd ==
    /\ pc = "main_end"
    /\ Return
    /\ UNCHANGED <<trace, apis, items, idx, result>>
    /\ UNCHANGED manage_frame

ManageInventories ==
    UNION { { [i \in 1..n |-> [id |-> ApiId(i), resources |-> b[i]]] :
              b \in [1..n -> ApiBodies] } : n \in 0..MaxDefinitions }

\* the --api_id values: none, the ids of definitions, an unknown id
ApiIdArgs == {None, "zzz"} \cup {ApiId(i) : i \in 1..MaxDefinitions}

\* main at line 692: the arguments are parsed, fp is constructed
InitManage ==
    /\ command \in {"delete", "delete-all", "update"}
    /\ pc = CASE command = "delete" -> "delete_api"
              [] command = "delete-all" -> "delete_all"
              [] command = "update" -> "update_api"
    /\ exit_code = -1
    /\ outcome = ""
    /\ trace = <<>>
    /\ apis \in ManageInventories
    /\ region = "us-east-1"
    /\ api_id \in IF command = "delete-all" THEN {None} ELSE ApiIdArgs
    /\ url \in IF command = "update" THEN {None, <<"http", "://", "b.com", "/">>}
               ELSE {None}
    /\ input = <<>>
    /\ urls = <<>>
    /\ unique = FALSE
    /\ url_pairs = <<>>
    /\ num_batches = 0
    /\ batch_i = 0
    /\ items = <<>>
    /\ idx = 0
    /\ result = None
    /\ creds = Idle

NextManage ==
    \/ DeleteApi
    \/ DeleteAllStart
    \/ DeleteAllStep
    \/ UpdateApi
    \/ MainEnd

SpecManage == InitManage /\ [][NextManage]_vars

(***************************************************************************)
(* main, commands list and list-id.                                        *)
(***************************************************************************)
\* list_api, lines 415-424: the definitions the loop does not skip
Visited(as, id) == SelectSeq(as, LAMBDA a : id = None \/ a.id = id)

\* list_api, lines 414-424: get_integrations for every definition not
\* skipped; the lines are only printed
ListApi ==
    /\ pc = "list_api"
    /\ LET e == EnumeratePairs(Visited(apis, api_id), region)
       IN /\ trace' = trace \o <<<<"get_rest_apis", "">>>> \o e.calls
          /\ IF e.ok
             THEN pc' = "main_end" /\ UNCHANGED <<outcome, exit_code>>
             ELSE Error
    /\ UNCHANGED <<apis, items, idx, result>>
    /\ UNCHANGED manage_frame

\* list_api_ids, lines 436-438
ListApiIds ==
    /\ pc = "list_api_ids"
    /\ trace' = Append(trace, <<"get_rest_apis", "">>)
    /\ pc' = "main_end"
    /\ UNCHANGED <<outcome, exit_code, apis, items, idx, result>>
    /\ UNCHANGED manage_frame

\* main at line 634: the arguments are parsed, fp is constructed
InitList ==
    /\ command \in {"list", "list-id"}
    /\ pc = IF command = "list" THEN "list_api" ELSE "list_api_ids"
    /\ exit_code = -1
    /\ outcome = ""
    /\ trace = <<>>
    /\ apis \in ManageInventories
    /\ region = "us-east-1"
    /\ api_id \in ApiIdArgs
    /\ url = None
    /\ input = <<>>
    /\ urls = <<>>
    /\ unique = FALSE
    /\ url_pairs = <<>>
    /\ num_batches = 0
    /\ batch_i = 0
    /\ items = <<>>
    /\ idx = 0
    /\ result = None
    /\ creds = Idle

NextList ==
    \/ ListApi
    \/ ListApiIds

(***************************************************************************)
(* main: every command.                                                    *)
(***************************************************************************)
InitMain ==
    \/ InitList
    \/ InitCreate
    \/ InitManage

NextMain ==
    \/ NextList
    \/ NextCreate
    \/ NextManage

SpecMain == InitMain /\ [][NextMain]_vars

(***************************************************************************)
(* FireProx.__init__ and load_creds.                                       *)
(*                                                                         *)
(* creds holds the arguments (access_key, secret_access_key,               *)
(* session_token, profile_name), the two files ~/.aws/credentials and      *)
(* ~/.aws/config as maps section -> option -> value (with their contents   *)
(* at the start, credentials0 and config0), and the attempts made, each    *)
(* <<kind, verified>>.  self.region is the variable region.  The files are *)
(* written together or, when the first open fails, not at all.             *)
(***************************************************************************)
creds_frame == <<trace, apis, input, unique, urls, url_pairs, num_batches,
                 batch_i, command, api_id, url, items, idx>>

NoOptions == [o \in {} |-> ""]

NoSections == [sec \in {} |-> NoOptions]

\* f'profile {self.profile_name}'
config_profile_section(name) == <<"profile ", name>>

\* store.add_section(sec) unless it is there
AddSection(store, sec) ==
    IF sec \in DOMAIN store THEN store ELSE (sec :> NoOptions) @@ store

\* store[sec][opt] = val
SetOption(store, sec, opt, val) ==
    [store EXCEPT ![sec] = (opt :> val) @@ @]

\* store.remove_option(sec, opt)
RemoveOption(store, sec, opt) ==
    [store EXCEPT ![sec] = [o \in (DOMAIN @) \ {opt} |-> @[o]]]

\* config[section].get('region', 'us-east-1')
ConfigRegion(config, sec) ==
    IF "region" \in DOMAIN config[sec] THEN config[sec]["region"] ELSE "us-east-1"

\* lines 121-123
WriteConfig(config, name, reg) ==
    SetOption(AddSection(config, config_profile_section(name)),
              config_profile_section(name), "region", reg)

\* the session token entry left in place when none is supplied
WriteCredentials_keep(credentials, name, ak, sk, token) ==
    LET c1 == AddSection(credentials, name)
        c2 == SetOption(c1, name, "aws_access_key_id", ak)
        c3 == SetOption(c2, name, "aws_secret_access_key", sk)
    IN IF token # None THEN SetOption(c3, name, "aws_session_token", token) ELSE c3

\* lines 126-133
WriteCredentials(credentials, name, ak, sk, token) ==
    LET c1 == AddSection(credentials, name)
        c2 == SetOption(c1, name, "aws_access_key_id", ak)
        c3 == SetOption(c2, name, "aws_secret_access_key", sk)
    IN IF token # None
       THEN SetOption(c3, name, "aws_session_token", token)
       ELSE RemoveOption(c3, name, "aws_session_token")

Attempt(kind, verified) == [creds EXCEPT !.attempts = Append(@, <<kind, verified>>)]

\* __init__, lines 47-51: the region is required with both keys
FireProxInit ==
    /\ pc = "__init__"
    /\ IF creds.access_key # None /\ creds.secret_access_key # None /\ region = None
       THEN Error
       ELSE pc' = "load_creds" /\ UNCHANGED <<outcome, exit_code>>
    /\ UNCHANGED <<region, result, creds>>
    /\ UNCHANGED creds_frame

\* load_creds, lines 85-99: which attempt comes first
LoadCreds ==
    /\ pc = "load_creds"
    /\ LET section == config_profile_section(creds.profile_name)
       IN IF creds.access_key = None /\ creds.secret_access_key = None
             /\ creds.profile_name = None
          THEN pc' = "_try_instance_profile" /\ UNCHANGED <<region, result>>
          ELSE IF creds.profile_name \in DOMAIN creds.credentials
          THEN IF section \notin DOMAIN creds.config
               THEN result' = "False" /\ pc' = "loaded" /\ UNCHANGED region
               ELSE /\ region' = IF region = None
                                 THEN ConfigRegion(creds.config, section)
                                 ELSE region
                    /\ pc' = "try_profile"
                    /\ UNCHANGED result
          ELSE pc' = "try_keys" /\ UNCHANGED <<region, result>>
    /\ UNCHANGED <<outcome, exit_code, creds>>
    /\ UNCHANGED creds_frame

\* the region boto3 selects for a client built without one
AmbientRegion == "us-east-2"

\* _try_instance_profile, lines 60-77: get_account succeeds or raises
TryInstanceProfile ==
    /\ pc = "_try_instance_profile"
    /\ \/ /\ creds' = Attempt("instance", TRUE)
          /\ region' = IF region = None THEN AmbientRegion ELSE region
          /\ result' = "True"
       \/ /\ creds' = Attempt("instance", FALSE)
          /\ result' = "False"
          /\ UNCHANGED region
    /\ pc' = "loaded"
    /\ UNCHANGED <<outcome, exit_code>>
    /\ UNCHANGED creds_frame

\* lines 100-106: the profile's client; on failure the keys are tried
TryProfile ==
    /\ pc = "try_profile"
    /\ \/ /\ creds' = Attempt("profile", TRUE)
          /\ result' = "True"
          /\ pc' = "loaded"
       \/ /\ creds' = Attempt("profile", FALSE)
          /\ pc' = "try_keys"
          /\ UNCHANGED result
    /\ UNCHANGED <<outcome, exit_code, region>>
    /\ UNCHANGED creds_frame

\* lines 108-140: the explicit keys; verified, they are saved under the
\* profile name if one is given
TryKeys ==
    /\ pc = "try_keys"
    /\ IF creds.access_key # None /\ creds.secret_access_key # None
       THEN \/ /\ creds' =
                    LET c == Attempt("keys", TRUE)
                    IN IF creds.profile_name # None
                       THEN [c EXCEPT
                               !.config = WriteConfig(@, creds.profile_name, region),
                               !.credentials =
                                   WriteCredentials(@, creds.profile_name,
                                       creds.access_key, creds.secret_access_key,
                                       creds.session_token)]
                       ELSE c
               /\ result' = "True"
            \/ /\ creds' = Attempt("keys", FALSE)
               /\ result' = "False"
            \* line 124: open(..., 'w') raises (~/.aws is missing or cannot
            \* be written) and the except of line 137 returns False
            \/ /\ creds.profile_name # None
               /\ creds' = Attempt("keys", TRUE)
               /\ result' = "False"
       ELSE result' = "False" /\ UNCHANGED creds
    /\ pc' = "loaded"
    /\ UNCHANGED <<outcome, exit_code, region>>
    /\ UNCHANGED creds_frame

\* __init__, lines 51-52
FireProxLoaded ==
    /\ pc = "loaded"
    /\ IF result = "False" THEN Error
       ELSE pc' = "constructed" /\ UNCHANGED <<outcome, exit_code>>
    /\ UNCHANGED <<region, result, creds>>
    /\ UNCHANGED creds_frame

\* ~/.aws/credentials at the start
CredentialsFiles ==
    { NoSections,
      "p1" :> ("aws_access_key_id" :> "OLDAK" @@ "aws_secret_access_key" :> "OLDSK"),
      "p1" :> ("aws_access_key_id" :> "OLDAK" @@ "aws_secret_access_key" :> "OLDSK"
               @@ "aws_session_token" :> "OLDST"),
      "p2" :> ("aws_access_key_id" :> "AK2" @@ "aws_secret_access_key" :> "SK2"
               @@ "aws_session_token" :> "ST2") }

\* ~/.aws/config at the start
ConfigFiles ==
    { NoSections,
      config_profile_section("p1") :> ("region" :> "us-west-2"),
      config_profile_section("p1") :> ("output" :> "json"),
      config_profile_section("p2") :> ("region" :> "us-west-2") }

\* main at line 634: the arguments are parsed
InitCreds ==
    /\ pc = "__init__"
    /\ exit_code = -1
    /\ outcome = ""
    /\ region \in {None, "eu-west-1"}
    /\ result = None
    /\ \E ak \in {None, "AK"}, sk \in {None, "SK"}, st \in {None, "ST"},
          pn \in {None, "p1"}, cf \in CredentialsFiles, cg \in ConfigFiles :
          creds = [access_key |-> ak, secret_access_key |-> sk,
                   session_token |-> st, profile_name |-> pn,
                   credentials |-> cf, credentials0 |-> cf,
                   config |-> cg, config0 |-> cg,
                   attempts |-> <<>>]
    /\ trace = <<>>
    /\ apis = <<>>
    /\ input = <<>>
    /\ urls = <<>>
    /\ unique = FALSE
    /\ url_pairs = <<>>
    /\ num_batches = 0
    /\ batch_i = 0
    /\ command = None
    /\ api_id = None
    /\ url = None
    /\ items = <<>>
    /\ idx = 0

NextCreds ==
    \/ FireProxInit
    \/ LoadCreds
    \/ TryInstanceProfile
    \/ TryProfile
    \/ TryKeys
    \/ FireProxLoaded

SpecCreds == InitCreds /\ [][NextCreds]_vars

(***************************************************************************)
(* get_template.                                                           *)
(*                                                                         *)
(* input is the list of URLs passed in and urls the cleaned list; result   *)
(* is the pair returned: the path entries of the document in the order     *)
(* they are written, each with its key and its integration uri, and the    *)
(* words.                                                                  *)
(***************************************************************************)
template_frame == <<exit_code, outcome, trace, apis, region, unique, url_pairs,
                    num_batches, batch_i, command, api_id, url, items, idx,
                    creds>>

\* no trailing slash is stripped
_clean_url_none(u) == u

\* lines 146-150
_clean_url(u) ==
    IF u[Len(u)] = "/" THEN DropLast(u, 1) ELSE u

\* the words the word list holds
WordList == {"w1", "w2", "w3"}

\* words.get_random_words(n): n words, drawn without regard to one another
get_random_words(n) == [1..n -> WordList]

\* lines 157-285 with the replacements of line 312: the four path entries
\* of one URL, the word followed by '/'
PathEntries(u, word) ==
    << [path |-> <<"/s-", word, "/">>, uri |-> u \o <<"/">>],
       [path |-> <<"/s-", word, "/{proxy+}", "/">>,
        uri |-> u \o <<"/", "{proxy}", "/">>],
       [path |-> <<"/", word, "/">>, uri |-> u],
       [path |-> <<"/", word, "/{proxy+}">>, uri |-> u \o <<"/", "{proxy}">>] >>

\* lines 308-315: zip(urls, ws) stops at the shorter list; the entries are
\* joined in order
TemplatePaths(cleaned, ws) ==
    LET n == IF Len(cleaned) < Len(ws) THEN Len(cleaned) ELSE Len(ws)
    IN [j \in 1..(4 * n) |->
           PathEntries(cleaned[((j - 1) \div 4) + 1],
                       ws[((j - 1) \div 4) + 1])[((j - 1) % 4) + 1]]

\* get_template, lines 152-319
GetTemplate ==
    /\ pc = "get_template"
    /\ LET cleaned == [i \in 1..Len(input) |-> _clean_url(input[i])]
       IN /\ urls' = cleaned
          /\ \E ws \in get_random_words(Len(cleaned)) :
                result' = [paths |-> TemplatePaths(cleaned, ws), ws |-> ws]
    /\ pc' = "template"
    /\ UNCHANGED input
    /\ UNCHANGED template_frame

\* the URLs handed to get_template: with and without trailing slashes
TemplateUrls ==
    { <<"http", "://", "a.com">>,
      <<"http", "://", "a.com", "/">>,
      <<"http", "://", "a.com", "/", "/">>,
      <<"https", "://", "b.com", ":", "8080", "/x">>,
      <<"https", "://", "b.com", ":", "8080", "/x", "/">> }

\* create_api at line 329
InitTemplate ==
    /\ pc = "get_template"
    /\ exit_code = -1
    /\ outcome = ""
    /\ trace = <<>>
    /\ apis = <<>>
    /\ region = "us-east-1"
    /\ input \in ListsUpTo(TemplateUrls, MaxUrls)
    /\ urls = input
    /\ unique = FALSE
    /\ url_pairs = <<>>
    /\ num_batches = 0
    /\ batch_i = 0
    /\ command = "create"
    /\ api_id = Idle
    /\ url = Idle
    /\ items = <<>>
    /\ idx = 0
    /\ result = Idle
    /\ creds = Idle

NextTemplate == GetTemplate

SpecTemplate == InitTemplate /\ [][NextTemplate]_vars

(***************************************************************************)
(* Properties of the create command (SpecCreate).                          *)
(***************************************************************************)
\* the part of a URL between "://" and its path: host[:port]
HostPort(u) == SubSeq(u, 3, FirstPathIndex(u) - 1)

Host(u) == u[3]

HasPort(u) == Len(HostPort(u)) = 3 /\ HostPort(u)[2] = ":"

Port(u) == int(HostPort(u)[3])

AllowedPort(p) == p = 80 \/ p = 443 \/ p > 1024

\* e is scheme + "://" + host[:port] of u, path and query discarded
IsSchemeHostOf(e, u) ==
    /\ Len(u) >= 3 /\ u[2] = "://"
    /\ e = <<Lower(u[1]), "://">> \o HostPort(u)
    /\ \A i \in 1..Len(e) : e[i] \notin PathTokens
    /\ Len(e) \in {3, 5}

\* prune_urls has returned to main
Returned == pc \in {"batching", "batch_loop", "batch_sleep"} \/ outcome \in {"returned", "exception"}

\* C1: the list prune_urls returns has no duplicates; each element is
\* scheme + "://" + host[:port] of some input URL (path and query dropped),
\* its port, if any, is 80, 443 or above 1024, and its host is the host of
\* an input URL.
C1_PruneOutput ==
    pc = "batching" =>
        /\ \A i, j \in 1..Len(urls) : i # j => urls[i] # urls[j]
        /\ \A i \in 1..Len(urls) :
              /\ \E u \in Range(input) : IsSchemeHostOf(urls[i], u)
              /\ HasPort(urls[i]) => AllowedPort(Port(urls[i]))
              /\ Host(urls[i]) \in {Host(u) : u \in Range(input)}

\* two different input URLs of one host were merged into one element
C1_Witness ==
    /\ pc = "batching"
    /\ Len(input) = 2 /\ input[1] # input[2]
    /\ Len(urls) = 1
    /\ \A i \in 1..2 : Len(input[i]) > Len(urls[1])

\* C2 as stated: with unique, no returned URL has the host of a target URL
\* of the fetched pairs.
C2_NoExistingHost ==
    (pc = "batching" /\ unique) =>
        \A i \in 1..Len(urls), k \in 1..Len(url_pairs) :
            Host(urls[i]) # Host(url_pairs[k][2])

FetchOps == {"get_rest_apis", "get_resources", "get_integration"}

\* C2 amended: with unique, no returned URL has the host[:port] (netloc) of a
\* target URL of the fetched pairs, whatever the schemes; a returned URL may
\* share its host name with a target whose explicit port differs.  Without
\* unique the existing pairs are never fetched.
C2_NoExistingNetloc ==
    /\ (pc = "batching" /\ unique) =>
          \A i \in 1..Len(urls), k \in 1..Len(url_pairs) :
              HostPort(urls[i]) # HostPort(url_pairs[k][2])
    /\ ~unique => \A i \in 1..Len(trace) : trace[i][1] \notin FetchOps

\* a URL was dropped for a target of another scheme, and one was returned
C2_Witness ==
    /\ pc = "batching" /\ unique /\ urls # <<>>
    /\ \E u \in Range(input), k \in 1..Len(url_pairs) :
          /\ HostPort(u) = HostPort(url_pairs[k][2])
          /\ Lower(u[1]) # url_pairs[k][2][1]

\* an input URL that lacks "://" or has an explicit port that is not 80, not
\* 443 and not above 1024
Offending(u) ==
    \/ \A i \in 1..Len(u) : u[i] # "://"
    \/ \E i \in 1..(Len(u) - 1) :
          u[i] = ":" /\ u[i + 1] \in PortTokens /\ ~AllowedPort(int(u[i + 1]))

\* C3: prune_urls ends the process with status 1 before any remote call
\* exactly when some input URL lacks "://" or has a port that is not 80, 443
\* or above 1024.
C3_AbortIffOffending ==
    pc # "prune_urls" =>
        ((\E u \in Range(input) : Offending(u))
            <=> (pc = "exited" /\ exit_code = 1 /\ trace = <<>>))

\* port 1024 beside an accepted port 8080: the batch is aborted
C3_Witness ==
    /\ pc = "exited" /\ exit_code = 1 /\ outcome = "sys.exit"
    /\ Len(input) = 2
    /\ HasPort(input[1]) /\ Port(input[1]) = 8080
    /\ HasPort(input[2]) /\ Port(input[2]) = 1024

CreateOps == {"import_rest_api", "create_deployment"}

\* C4: at the end of prune_urls an empty list ends the process with status 0
\* and no import or deployment call; a list with a URL is returned; and
\* prune_urls ends the process with status 0 nowhere else.
C4_EmptyExit ==
    [][ /\ pc = "check_empty" =>
              IF Len(urls) = 0
              THEN /\ pc' = "exited" /\ exit_code' = 0
                   /\ \A i \in 1..Len(trace') : trace'[i][1] \notin CreateOps
              ELSE pc' = "batching" /\ urls' = urls
        /\ (pc' = "exited" /\ exit_code' = 0 /\ outcome' = "sys.exit") =>
              (pc = "check_empty" /\ Len(urls) = 0)
      ]_vars

\* every host of a non-empty input was already proxied: status 0
C4_Witness ==
    /\ pc = "exited" /\ exit_code = 0 /\ outcome = "sys.exit"
    /\ unique /\ input # <<>> /\ url_pairs # <<>>
    /\ \A i \in 1..Len(trace) : trace[i][1] \notin CreateOps

\* the batches create_api was called with, in call order
Imports == SelectSeq(trace, LAMBDA ev : ev[1] = "import_rest_api")

Batches == [i \in 1..Len(Imports) |-> Imports[i][2]]

\* C5: with max_urls = 59, every batch is non-empty and has at most max_urls
\* URLs (5 paths each, at most 298), the batches concatenated are the start
\* of the validated list, and when the command has run to its end there are
\* ceil(num_urls / max_urls) of them and concatenated they are the list.
C5_Batches ==
    Returned =>
        /\ max_urls = 59
        /\ \A i \in 1..Len(Batches) :
              /\ Len(Batches[i]) >= 1
              /\ Len(Batches[i]) <= max_urls
              /\ Len(Batches[i]) * INTEGRATIONS_PER_URL <= API_GATEWAY_LIMIT
        /\ Len(Flatten(Batches)) <= Len(urls)
        /\ Flatten(Batches) = SubSeq(urls, 1, Len(Flatten(Batches)))
        /\ outcome = "returned" =>
              /\ Flatten(Batches) = urls
              /\ (Len(Batches) - 1) * 59 < Len(urls)
              /\ Len(urls) <= Len(Batches) * 59

\* three batches were created
C5_Witness ==
    /\ outcome = "returned"
    /\ Len(Batches) = 3
    /\ Len(Batches[3]) < Len(Batches[2])

\* the positions of the import calls in the trace
ImportAt == {i \in 1..Len(trace) : trace[i][1] = "import_rest_api"}

SleepsIn(lo, hi) == SelectSeq(SubSeq(trace, lo, hi), LAMBDA ev : ev[1] = "sleep")

\* C6 as stated: a 3.5-second pause precedes every import call, the first
\* one included, and with more than one batch an extra pause comes up front
\* (read on the runs in which no remote call raises).
C6_PauseBeforeEach ==
    outcome # "exception" => \A i \in ImportAt :
        LET prev == {j \in ImportAt : j < i}
            from == IF prev = {} THEN 1 ELSE (CHOOSE j \in prev : \A k \in prev : k <= j)
        IN /\ \E k \in from..i : trace[k] = Sleep(35)
           /\ (prev = {} /\ num_batches > 1) => Len(SleepsIn(1, i)) >= 2

\* C6 amended: a 3.5-second pause follows every completed creation call
\* (import and deployment), so exactly one lies between two consecutive
\* import calls and one follows the last; none precedes the first import
\* call, before which the only pause is one of 3 seconds when more than one
\* batch is needed.
C6_PauseAfterEach ==
    /\ \A i \in ImportAt :
          LET prev == {j \in ImportAt : j < i}
          IN IF prev = {}
             THEN SleepsIn(1, i) = IF num_batches > 1 THEN <<Sleep(30)>> ELSE <<>>
             ELSE LET j == CHOOSE j \in prev : \A k \in prev : k <= j
                  IN SleepsIn(j, i) = <<Sleep(35)>>
    /\ outcome = "returned" =>
          /\ trace[Len(trace)] = Sleep(35)
          /\ Len(SelectSeq(trace, LAMBDA ev : ev = Sleep(35))) = Len(Imports)

\* two batches were created
C6_Witness ==
    /\ outcome = "returned"
    /\ num_batches = 2
    /\ Len(Imports) = 2

(***************************************************************************)
(* Properties of delete, delete-all and update (SpecManage).               *)
(***************************************************************************)
\* the ids delete_rest_api was called with, in call order
DeleteCalls == SelectSeq(trace, LAMBDA ev : ev[1] = "delete_rest_api")

DeletedIds == [i \in 1..Len(DeleteCalls) |-> DeleteCalls[i][2]]

\* one enumeration, then a delete call per id with a 30.5 s pause between
\* two of them
RECURSIVE DeleteAllCalls(_)
DeleteAllCalls(ids) ==
    IF ids = <<>> THEN <<>>
    ELSE IF Len(ids) = 1 THEN <<<<"delete_rest_api", ids[1]>>>>
    ELSE <<<<"delete_rest_api", ids[1]>>, Sleep(305)>> \o DeleteAllCalls(Tail(ids))

IsPrefix(s, t) == Len(s) <= Len(t) /\ s = SubSeq(t, 1, Len(s))

\* C7: delete-all enumerates once, then issues one delete call per
\* enumerated id, in enumeration order and never twice for an id, with one
\* 30.5-second pause between two consecutive delete calls and none after
\* the last; with nothing enumerated it issues no delete call and returns
\* false.
C7_DeleteAll ==
    (command = "delete-all" /\ pc # "delete_all") =>
        LET expected == <<<<"get_rest_apis", "">>>> \o DeleteAllCalls(items)
        IN /\ IsPrefix(trace, expected)
           /\ \A i, j \in 1..Len(DeletedIds) : i # j => DeletedIds[i] # DeletedIds[j]
           /\ pc \in {"main_end", "exited"} /\ outcome # "exception" =>
                 /\ trace = expected
                 /\ DeletedIds = items
                 /\ Len(SleepsIn(1, Len(trace))) = (IF items = <<>> THEN 0 ELSE Len(items) - 1)
                 /\ result = IF items = <<>> THEN "False" ELSE "True"

\* three definitions were deleted
C7_Witness ==
    /\ command = "delete-all" /\ outcome = "returned"
    /\ Len(items) = 3 /\ Len(DeletedIds) = 3

\* C8: delete_api with an id that is not enumerated returns false, raises
\* nothing and issues no delete call; with an enumerated id it issues one
\* delete call, for that id, and returns true.
C8_DeleteApi ==
    (command = "delete" /\ api_id # None /\ pc \in {"main_end", "exited"}) =>
        IF Contains(items, api_id)
        THEN /\ DeletedIds = <<api_id>>
             /\ outcome # "exception" => result = "True"
        ELSE /\ DeletedIds = <<>>
             /\ outcome # "exception"
             /\ result = "False"

\* an unknown id among existing definitions: false is returned
C8_Witness ==
    /\ command = "delete" /\ outcome = "returned"
    /\ api_id # None /\ items # <<>> /\ ~Contains(items, api_id)
    /\ result = "False"

\* the definition --api_id names has no wildcard resource that is not a decoy
NoMatchingResource ==
    \E i \in 1..Len(apis) : apis[i].id = api_id /\ get_resources(apis[i]) = <<>>

\* C9: update against an id without a matching resource ends in a reported
\* failure (self.error with its message), not in a crash, and issues no
\* update_integration call.
C9_UpdateReportsFailure ==
    (command = "update" /\ url # None /\ NoMatchingResource /\ pc = "exited") =>
        /\ outcome = "self.error"
        /\ \A i \in 1..Len(trace) : trace[i][1] # "update_integration"

(***************************************************************************)
(* Properties of the credential resolution (SpecCreds).                    *)
(***************************************************************************)
StoresChanged ==
    creds.credentials # creds.credentials0 \/ creds.config # creds.config0

LastAttempt == creds.attempts[Len(creds.attempts)]

\* the explicit keys were verified, a profile name was given and the files
\* could be written
OnWritingPath ==
    /\ creds.attempts # <<>> /\ LastAttempt = <<"keys", TRUE>>
    /\ creds.profile_name # None
    /\ result = "True"

Resolved == pc \in {"loaded", "constructed"} \/ (pc = "exited" /\ result # None)

Supplied(v) == v # None

BothKeys == Supplied(creds.access_key) /\ Supplied(creds.secret_access_key)

Kinds == [i \in 1..Len(creds.attempts) |-> creds.attempts[i][1]]

Verified(i) == creds.attempts[i][2]

\* C11 (the order of the attempts): the ambient attempt is made exactly when
\* nothing is supplied; otherwise the profile attempt is made when the
\* profile is in the credentials file at the start and has a config section
\* (without the section no attempt is made and the result is False); the
\* explicit keys are tried after a failed or absent profile attempt exactly
\* when both are supplied; the attempts stop at the first verified one.
C11_AttemptOrder ==
    Resolved =>
       LET nothing == ~ Supplied(creds.access_key)
                      /\ ~ Supplied(creds.secret_access_key)
                      /\ ~ Supplied(creds.profile_name)
           in_store == creds.profile_name \in DOMAIN creds.credentials0
           section == config_profile_section(creds.profile_name)
                         \in DOMAIN creds.config0
       IN /\ ("instance" \in Range(Kinds)) <=> nothing
          /\ nothing => Kinds = <<"instance">>
          /\ (~ nothing /\ in_store /\ ~ section) =>
                 creds.attempts = <<>> /\ result = "False"
          /\ (~ nothing /\ in_store /\ section) =>
                 /\ Kinds # <<>> /\ Kinds[1] = "profile"
                 /\ Verified(1) => Kinds = <<"profile">>
                 /\ (~ Verified(1) /\ BothKeys) => Kinds = <<"profile", "keys">>
                 /\ (~ Verified(1) /\ ~ BothKeys) =>
                        Kinds = <<"profile">> /\ result = "False"
          /\ (~ nothing /\ ~ in_store) =>
                 IF BothKeys THEN Kinds = <<"keys">>
                 ELSE creds.attempts = <<>> /\ result = "False"
          /\ result = "True" => creds.attempts # <<>> /\ Verified(Len(creds.attempts))

\* C11: once load_creds has returned, it returned True if and only if one of
\* the attempts it made was verified by get_account.
C11_SucceedsIffVerified ==
    Resolved =>
       (result = "True" <=> \E i \in 1..Len(creds.attempts) : Verified(i))

\* the profile attempt failed, the keys were verified by get_account, and
\* load_creds returned False all the same: the process ends with the error
C11_VerifiedButFailed ==
    /\ pc = "exited" /\ exit_code = 1 /\ outcome = "self.error"
    /\ creds.attempts = <<<<"profile", FALSE>>, <<"keys", TRUE>>>>
    /\ result = "False"

(***************************************************************************)
(* Properties of the template (SpecTemplate).                              *)
(***************************************************************************)
\* the input URL with one trailing slash stripped
Stripped(u) ==
    IF u # <<>> /\ u[Len(u)] = "/" THEN SubSeq(u, 1, Len(u) - 1) ELSE u

IsDecoyPath(p) == p[1] = "/s-"

IsWildcardPath(p) == \E k \in 1..Len(p) : p[k] = "/{proxy+}"

\* the entries written for the i-th URL
EntriesOf(i) == SubSeq(result.paths, 4 * (i - 1) + 1, 4 * i)

\* 4 x N entries; the i-th URL has, with the i-th word, an exact and a
\* wildcard path, each with and without the decoy prefix
TemplateShape ==
    /\ Len(result.ws) = Len(input)
    /\ Len(result.paths) = 4 * Len(input)
    /\ \A i \in 1..Len(input) :
          /\ \A k \in 1..4 : EntriesOf(i)[k].path[2] = result.ws[i]
          /\ \A decoy \in BOOLEAN, wildcard \in BOOLEAN :
                Cardinality({k \in 1..4 :
                    /\ IsDecoyPath(EntriesOf(i)[k].path) = decoy
                    /\ IsWildcardPath(EntriesOf(i)[k].path) = wildcard}) = 1

\* C12 as stated: the document has 4 x N entries as above, and each entry's
\* uri is the stripped input URL, followed by the proxy suffix in the two
\* wildcard entries and by nothing in the two exact entries.
C12_UriIsUrl ==
    pc = "template" =>
       /\ TemplateShape
       /\ \A i \in 1..Len(input) : \A k \in 1..4 :
             LET e == EntriesOf(i)[k]
             IN e.uri = Stripped(input[i]) \o
                           (IF IsWildcardPath(e.path) THEN <<"/", "{proxy}">> ELSE <<>>)

\* C12: the document has 4 x N entries as above, and each entry's uri is
\* the stripped input URL, followed by the proxy suffix in the two wildcard
\* entries, and by one more slash in the two decoy entries.
C12_UriOfVariant ==
    pc = "template" =>
       /\ TemplateShape
       /\ \A i \in 1..Len(input) : \A k \in 1..4 :
             LET e == EntriesOf(i)[k]
             IN e.uri = Stripped(input[i]) \o
                           (IF IsWildcardPath(e.path) THEN <<"/", "{proxy}">> ELSE <<>>) \o
                           (IF IsDecoyPath(e.path) THEN <<"/">> ELSE <<>>)

\* two URLs, the first with a trailing slash, and the same word drawn twice
C12_Witness ==
    /\ pc = "template"
    /\ Len(input) = 2
    /\ input[1][Len(input[1])] = "/"
    /\ input[2][Len(input[2])] # "/"
    /\ result.ws[1] = result.ws[2]

(***************************************************************************)
(* Properties of a failing remote call in a loop (SpecMain).               *)
(***************************************************************************)
Deployments == SelectSeq(trace, LAMBDA ev : ev[1] = "create_deployment")

LastCall == trace[Len(trace)]

\* the i-th slice of at most 59 of the validated URLs
SliceOf(i) ==
    SubSeq(urls, 59 * (i - 1) + 1, IF 59 * i > Len(urls) THEN Len(urls) ELSE 59 * i)

\* C13: when a remote call of the k-th batch of a create, or the k-th delete
\* call of a delete-all, fails, the process has ended with status 1; the
\* calls issued are those of the items 1..k and no others (batches 1..k-1
\* imported and deployed, definitions 1..k-1 deleted and all later ones
\* still there); and no call undoes an earlier item (no delete call in a
\* create, no import in a delete-all).
C13_FailureHalts ==
    (command \in {"create", "delete-all"} /\ outcome = "exception") =>
       /\ pc = "exited" /\ exit_code = 1
       /\ command = "create" =>
             LET imported == Batches
                 k == Len(imported)
             IN /\ k >= 1 /\ k = batch_i + 1 /\ k <= num_batches
                /\ \A i \in 1..k : imported[i] = SliceOf(i)
                /\ \/ LastCall = <<"import_rest_api", SliceOf(k)>>
                      /\ Len(Deployments) = k - 1
                   \/ LastCall[1] = "create_deployment"
                      /\ Len(Deployments) = k
                /\ \A i \in 1..Len(trace) :
                      trace[i][1] \notin {"delete_rest_api", "update_integration"}
       /\ command = "delete-all" =>
             LET k == Len(DeleteCalls)
             IN /\ k >= 1 /\ k = idx + 1 /\ k <= Len(items)
                /\ DeletedIds = SubSeq(items, 1, k)
                /\ LastCall = <<"delete_rest_api", items[k]>>
                /\ get_api_ids(apis) = SubSeq(items, k, Len(items))
                /\ \A i \in 1..Len(trace) :
                      trace[i][1] \notin {"import_rest_api", "create_deployment",
                                          "update_integration"}

\* the deployment of the second of three batches failed
C13_Witness ==
    /\ command = "create" /\ outcome = "exception"
    /\ num_batches = 3
    /\ Len(Imports) = 2
    /\ LastCall[1] = "create_deployment"

\* the second of three delete calls failed: one definition is gone, two
\* are still there
C13_DeleteAllFailed ==
    /\ command = "delete-all" /\ outcome = "exception"
    /\ Len(items) = 3 /\ Len(DeleteCalls) = 2
    /\ Len(apis) = 2

(***************************************************************************)
(* Properties of the enumeration of the definitions (SpecMain).            *)
(***************************************************************************)
\* a resource whose path ends with the wildcard suffix and does not start
\* with the decoy sentinel
HasProxyResource(api) ==
    \E k \in 1..Len(api.resources) :
       LET path == api.resources[k].path
       IN path[Len(path)] = "/{proxy+}" /\ path[1] # "/s-"

\* the definitions the enumeration visits: all of them, or with list and
\* an --api_id the one of that id
VisitedDefs ==
    IF command = "list" /\ api_id # None
    THEN SelectSeq(apis, LAMBDA a : a.id = api_id)
    ELSE apis

Lacking == {i \in 1..Len(VisitedDefs) : ~ HasProxyResource(VisitedDefs[i])}

FirstLacking == CHOOSE i \in Lacking : \A j \in Lacking : i <= j

\* list, or create --unique past its validations, has enumerated
Enumerated ==
    /\ command = "list" \/ (command = "create" /\ unique)
    /\ trace # <<>> /\ trace[1] = <<"get_rest_apis", "">>

\* C14: once list or create --unique has enumerated and a visited
\* definition lacks such a resource, the process has ended with status 1
\* through self.error at the first such definition: its resources were the
\* last thing fetched, integrations were fetched only for the definitions
\* before it, no pairs were returned and nothing was created.
C14_EnumerationFails ==
    (Enumerated /\ Lacking # {}) =>
       LET b == FirstLacking
           before == {VisitedDefs[j].id : j \in 1..(b - 1)}
       IN /\ pc = "exited" /\ exit_code = 1 /\ outcome = "self.error"
          /\ LastCall = <<"get_resources", VisitedDefs[b].id>>
          /\ \A i \in 1..Len(trace) :
                /\ trace[i][1] = "get_integration" => trace[i][2][1] \in before
                /\ trace[i][1] = "get_resources" =>
                      trace[i][2] \in before \cup {VisitedDefs[b].id}
                /\ trace[i][1] \notin {"import_rest_api", "create_deployment"}
          /\ url_pairs = <<>>

\* create --unique: the first definition was read, the second has only a
\* decoy wildcard and ended the command
C14_Witness ==
    /\ command = "create" /\ unique
    /\ Len(apis) = 2
    /\ HasProxyResource(apis[1]) /\ ~ HasProxyResource(apis[2])
    /\ outcome = "self.error"
    /\ \E i \in 1..Len(trace) : trace[i][1] = "get_integration"
    /\ LastCall = <<"get_resources", "api2">>

\* list --api_id api2: the first definition, which lacks the resource, is
\* skipped and the second is listed
C14_ListSkips ==
    /\ command = "list" /\ api_id = "api2"
    /\ Len(apis) >= 2
    /\ ~ HasProxyResource(apis[1]) /\ HasProxyResource(apis[2])
    /\ outcome = "returned"

\* list: the second of three definitions ended the command
C14_ListFailed ==
    /\ command = "list" /\ api_id = None
    /\ Len(apis) = 3
    /\ HasProxyResource(apis[1]) /\ ~ HasProxyResource(apis[2])
    /\ outcome = "self.error"
    /\ LastCall = <<"get_resources", "api2">>

====
